---- MODULE Spec2Model ----
(***************************************************************************)
(* Model of the Snake game of src/src/main.rs (Bevy 0.8).                  *)
(*                                                                         *)
(* The program is a Bevy App with one fixed-timestep system set holding    *)
(* three systems: move_snake, apply_velocity and check_for_collisions.     *)
(* The state is the ECS world (entities with their components), the        *)
(* command buffer of check_for_collisions, the CollisionEvent channel and  *)
(* the position of the schedule inside the current tick.                   *)
(*                                                                         *)
(* Lengths are f32 in the program.  Every length the program computes is   *)
(* a sum of multiples of 1/60 * 700 = 35/3 and of 20/2.75 = 80/11, so the  *)
(* model counts lengths in units of 1/33 (Scale units per world unit) and  *)
(* all arithmetic below is exact.                                          *)
(***************************************************************************)
EXTENDS Integers, Sequences, FiniteSets, TLC

\* ------------------------------------------------------------------------
\* Constants of main.rs, in model units
\* ------------------------------------------------------------------------
Scale == 3 * 11

\* TIME_STEP = 1.0 / 60.0: multiplying by TIME_STEP divides by 60
TIME_STEP_INV == 60

SNAKE_SIZE == <<20 * Scale, 20 * Scale>>
SNAKE_SPEED == 700 * Scale
\* Vec2::new(-0.5, 0.0), in halves
INITIAL_SNAKE_DIRECTION == <<-1, 0>>
FOOD_SIZE == <<20 * Scale, 20 * Scale>>

LEFT_WALL == -450 * Scale
RIGHT_WALL == 450 * Scale
BOTTOM_WALL == -300 * Scale
TOP_WALL == 300 * Scale
WALL_THICKNESS == 10 * Scale

\* ------------------------------------------------------------------------
\* f32 helpers
\* ------------------------------------------------------------------------
Sgn(a) == IF a < 0 THEN -1 ELSE IF a > 0 THEN 1 ELSE 0

\* Vec2::normalize for a vector lying on one axis
Normalize(v) == <<Sgn(v[1]), Sgn(v[2])>>

\* a * TIME_STEP
TimesStep(a) == a \div TIME_STEP_INV

\* mutant: the upper bound is not applied
ClampLowOnly(v, lo, hi) == IF v < lo THEN lo ELSE v

\* f32::clamp(v, lo, hi)
Clamp(v, lo, hi) == IF v < lo THEN lo ELSE IF v > hi THEN hi ELSE v

\* SNAKE_SIZE.x / 2.75 = SNAKE_SIZE.x * 4 / 11
Shrink(a) == (a * 4) \div 11

Min(S) == CHOOSE m \in S : \A n \in S : m <= n

\* ------------------------------------------------------------------------
\* WallLocation
\* ------------------------------------------------------------------------
WallLocation == {"Left", "Right", "Bottom", "Top"}

WallPosition(loc) ==
    CASE loc = "Left" -> <<LEFT_WALL, 0>>
      [] loc = "Right" -> <<RIGHT_WALL, 0>>
      [] loc = "Bottom" -> <<0, BOTTOM_WALL>>
      [] loc = "Top" -> <<0, TOP_WALL>>

arena_height == TOP_WALL - BOTTOM_WALL
arena_width == RIGHT_WALL - LEFT_WALL

WallSize(loc) ==
    IF loc \in {"Left", "Right"}
    THEN <<WALL_THICKNESS, arena_height + WALL_THICKNESS>>
    ELSE <<arena_width + WALL_THICKNESS, WALL_THICKNESS>>

\* ------------------------------------------------------------------------
\* Entities and components
\* ------------------------------------------------------------------------
\* entity ids handed out by setup (the camera, spawned first, carries none
\* of the components the three systems query and is left out)
SnakeId == 1
FirstFoodId == 2
WallId(loc) ==
    CASE loc = "Left" -> 3
      [] loc = "Right" -> 4
      [] loc = "Bottom" -> 5
      [] loc = "Top" -> 6

\* size of the id space of the entity allocator
MaxEntities == 8
EntityIds == 1..MaxEntities

\* the allocator hands out an id that is neither live nor reserved
FreshId(used) == Min(EntityIds \ used)

\* Snake + SpriteBundle + Velocity
SnakeEntity ==
    [translation |-> <<0, 0>>, scale |-> SNAKE_SIZE,
     velocity |-> <<Normalize(INITIAL_SNAKE_DIRECTION)[1] * SNAKE_SPEED,
                    Normalize(INITIAL_SNAKE_DIRECTION)[2] * SNAKE_SPEED>>]

\* Food + SpriteBundle + Collider
FoodEntity(p) == [translation |-> p, scale |-> FOOD_SIZE]

\* WallBundle::new: SpriteBundle + Collider
WallBundle(loc) == [translation |-> WallPosition(loc), scale |-> WallSize(loc)]

\* mutant: the range includes its upper end
GenRangeInclusive(lo, hi) == {lo, hi}

\* rng.gen_range(lo..hi): the half-open range, sampled at its two ends
GenRange(lo, hi) == {lo, hi - 1}

FoodXs == GenRange(-450 * Scale, 450 * Scale)
FoodYs == GenRange(-300 * Scale, 300 * Scale)

\* the four arena constants as one value
Arena(l, r, b, t) == [left |-> l, right |-> r, bottom |-> b, top |-> t]
DefaultArena == Arena(LEFT_WALL, RIGHT_WALL, BOTTOM_WALL, TOP_WALL)

\* an f32 with its sign bit: a zero has a sign, and negation flips it
F32(a) == [neg |-> a < 0, mag |-> IF a < 0 THEN -a ELSE a]
NegF(f) == [f EXCEPT !.neg = ~@]
ValueF(f) == IF f.neg THEN -f.mag ELSE f.mag

\* ------------------------------------------------------------------------
\* State: the ECS world, one table per archetype (set of components)
\* ------------------------------------------------------------------------
VARIABLES
    snakes,     \* entities with Snake, Transform, Velocity: id -> components
    foods,      \* entities with Food, Transform, Collider: id -> components
    walls,      \* entities with Transform, Collider only: id -> components
    commands,   \* command buffer of check_for_collisions, not yet applied
    ran,        \* systems of the set that have run in the current tick
    events,     \* CollisionEvents sent by the latest check_for_collisions
    idleTicks,  \* ticks completed since startup while no key was ever
                \* pressed (saturating), or -1 once a key has been pressed
    startup,    \* the arena constants the program was built with, and how
                \* far the startup system has got
    keylog      \* the key states move_snake has read and the stored velocity
                \* before and after each, sign bits included

vars == <<snakes, foods, walls, commands, ran, events, idleTicks, startup, keylog>>

Systems == {"move_snake", "apply_velocity", "check_for_collisions"}
Keys == {"Left", "Right", "Up", "Down"}
KeySets == SUBSET Keys

\* cap of the idleTicks counter
MaxIdleTicks == 40

Live == DOMAIN snakes \cup DOMAIN foods \cup DOMAIN walls

\* Query<(Entity, &Transform, Option<&Food>), With<Collider>>
\* mutant: only the food carries the Collider component
CollidersFoodOnly == foods

Colliders == foods @@ walls

\* the world after the startup system and its commands
Setup ==
    /\ snakes = (SnakeId :> SnakeEntity)
    /\ \E food_x \in FoodXs, food_y \in FoodYs :
         foods = (FirstFoodId :> FoodEntity(<<food_x, food_y>>))
    /\ walls = [e \in {WallId(loc) : loc \in WallLocation} |->
                  WallBundle(CHOOSE loc \in WallLocation : WallId(loc) = e)]
    /\ commands = <<>>
    /\ ran = {}
    /\ events = 0
    /\ idleTicks = 0

Init ==
    /\ Setup
    /\ startup = [arena |-> DefaultArena, phase |-> "running"]
    /\ keylog = [on |-> FALSE, entries |-> <<>>]

\* ------------------------------------------------------------------------
\* move_snake
\* ------------------------------------------------------------------------
left_bound == LEFT_WALL + WALL_THICKNESS + Shrink(SNAKE_SIZE[1])
right_bound == RIGHT_WALL - WALL_THICKNESS - Shrink(SNAKE_SIZE[1])
top_bound == TOP_WALL - WALL_THICKNESS - Shrink(SNAKE_SIZE[2])
bottom_bound == BOTTOM_WALL + WALL_THICKNESS + Shrink(SNAKE_SIZE[2])

direction_x(pressed) ==
    (IF "Left" \in pressed THEN -1 ELSE 0) + (IF "Right" \in pressed THEN 1 ELSE 0)
direction_y(pressed) ==
    (IF "Up" \in pressed THEN 1 ELSE 0) + (IF "Down" \in pressed THEN -1 ELSE 0)

\* the stored velocity after the four key tests
NewVelocity(v, pressed) ==
    <<IF "Left" \in pressed THEN -v[1] ELSE v[1],
      IF "Down" \in pressed THEN -v[2] ELSE v[2]>>

\* the translation after the clamp
NewTranslation(t, pressed) ==
    <<Clamp(t[1] + TimesStep(direction_x(pressed) * SNAKE_SPEED), left_bound, right_bound),
      Clamp(t[2] + TimesStep(direction_y(pressed) * SNAKE_SPEED), bottom_bound, top_bound)>>

\* mutant: the Up branch negates velocity.y
NewVelocityFUpNegates(v, pressed) ==
    <<IF "Left" \in pressed THEN NegF(v[1]) ELSE v[1],
      IF ("Up" \in pressed) # ("Down" \in pressed) THEN NegF(v[2]) ELSE v[2]>>

\* the same assignments on f32 values with their sign bits: Left negates x,
\* Right and Up store the value back, Down negates y
NewVelocityF(v, pressed) ==
    <<IF "Left" \in pressed THEN NegF(v[1]) ELSE v[1],
      IF "Down" \in pressed THEN NegF(v[2]) ELSE v[2]>>

\* while the log is on: the keys read and the velocity before and after
Logged(log, v, pressed) ==
    IF ~log.on THEN log
    ELSE LET before == IF log.entries = <<>> THEN <<F32(v[1]), F32(v[2])>>
                       ELSE log.entries[Len(log.entries)].after
         IN [log EXCEPT !.entries =
                Append(@, [pressed |-> pressed, before |-> before,
                           after |-> NewVelocityF(before, pressed)])]

\* the tick ends when the set has run and its command buffer is applied
RanAfter(sys, cmds) ==
    IF sys = "check_for_collisions" /\ cmds = <<>> THEN {} ELSE ran \cup {sys}

\* query.single_mut(): the one entity of the query
Single(table) == CHOOSE e \in DOMAIN table : TRUE

MoveSnake(pressed) ==
    /\ "move_snake" \notin ran
    /\ "check_for_collisions" \notin ran
    /\ Cardinality(DOMAIN snakes) = 1
    /\ snakes' = [snakes EXCEPT
                    ![Single(snakes)].velocity = NewVelocity(@, pressed),
                    ![Single(snakes)].translation = NewTranslation(@, pressed)]
    /\ ran' = RanAfter("move_snake", commands)
    /\ idleTicks' = IF pressed = {} THEN idleTicks ELSE -1
    /\ keylog' = Logged(keylog, snakes[Single(snakes)].velocity, pressed)
    /\ UNCHANGED <<foods, walls, commands, events, startup>>

\* ------------------------------------------------------------------------
\* apply_velocity
\* ------------------------------------------------------------------------
\* mutant: the velocity is not integrated
IntegrateNoDrift(c) == c

\* mutant: the integrated position is clamped to the bounds of move_snake
IntegrateClamped(c) ==
    [c EXCEPT !.translation =
        <<Clamp(@[1] + TimesStep(c.velocity[1]), left_bound, right_bound),
          Clamp(@[2] + TimesStep(c.velocity[2]), bottom_bound, top_bound)>>]

\* mutant: the velocity is integrated over two time steps
IntegrateDouble(c) ==
    [c EXCEPT !.translation = <<@[1] + 2 * TimesStep(c.velocity[1]),
                                @[2] + 2 * TimesStep(c.velocity[2])>>]

Integrate(c) ==
    [c EXCEPT !.translation = <<@[1] + TimesStep(c.velocity[1]),
                                @[2] + TimesStep(c.velocity[2])>>]

\* Query<(&mut Transform, &Velocity)> matches the snakes table only
ApplyVelocity ==
    /\ "apply_velocity" \notin ran
    /\ "check_for_collisions" \notin ran
    /\ snakes' = [e \in DOMAIN snakes |-> Integrate(snakes[e])]
    /\ ran' = RanAfter("apply_velocity", commands)
    /\ UNCHANGED <<foods, walls, commands, events, idleTicks, startup, keylog>>

\* ------------------------------------------------------------------------
\* check_for_collisions
\* ------------------------------------------------------------------------
\* bevy::sprite::collide_aabb::collide(a_pos, a_size, b_pos, b_size) is Some
Collide(a_pos, a_size, b_pos, b_size) ==
    /\ 2 * a_pos[1] - a_size[1] < 2 * b_pos[1] + b_size[1]
    /\ 2 * a_pos[1] + a_size[1] > 2 * b_pos[1] - b_size[1]
    /\ 2 * a_pos[2] - a_size[2] < 2 * b_pos[2] + b_size[2]
    /\ 2 * a_pos[2] + a_size[2] > 2 * b_pos[2] - b_size[2]

\* the entities of the table the rectangle of s overlaps
Hits(s, table) ==
    {c \in DOMAIN table : Collide(s.translation, s.scale,
                                  table[c].translation, table[c].scale)}

\* mutant: the eaten food is not despawned
FoodCommandsNoDespawn(S, newPos, used) ==
    IF S = {} THEN <<>>
    ELSE <<[op |-> "spawn", id |-> FreshId(used),
            bundle |-> FoodEntity(newPos[Min(S)])]>>

\* the commands queued for the eaten foods S, in iteration order
\* mutant: the despawn is issued for the player
FoodCommandsDespawnSnake(S, newPos, used) ==
    IF S = {} THEN <<>>
    ELSE <<[op |-> "despawn", id |-> SnakeId],
           [op |-> "spawn", id |-> FreshId(used),
            bundle |-> FoodEntity(newPos[Min(S)])]>>

\* mutant: the replacement is spawned before the eaten food is despawned
FoodCommandsSpawnFirst(S, newPos, used) ==
    IF S = {} THEN <<>>
    ELSE <<[op |-> "spawn", id |-> FreshId(used),
            bundle |-> FoodEntity(newPos[Min(S)])],
           [op |-> "despawn", id |-> Min(S)]>>

RECURSIVE FoodCommands(_, _, _)
FoodCommands(S, newPos, used) ==
    IF S = {} THEN <<>>
    ELSE LET e == Min(S)
             n == FreshId(used)
         IN  <<[op |-> "despawn", id |-> e],
               [op |-> "spawn", id |-> n, bundle |-> FoodEntity(newPos[e])]>>
             \o FoodCommands(S \ {e}, newPos, used \cup {n})

\* mutant: every collider hit is despawned and replaced, food or not
CheckForCollisionsDespawnAny ==
    /\ ran = {"move_snake", "apply_velocity"}
    /\ Cardinality(DOMAIN snakes) = 1
    /\ LET s == snakes[Single(snakes)]
           eaten == Hits(s, Colliders)
       IN /\ events' = Cardinality(Hits(s, Colliders))
          /\ \E newPos \in [eaten -> FoodXs \X FoodYs] :
                commands' = FoodCommands(eaten, newPos, Live)
    /\ ran' = RanAfter("check_for_collisions", commands')
    /\ idleTicks' = IF idleTicks \in 0..(MaxIdleTicks - 1)
                    THEN idleTicks + 1 ELSE idleTicks
    /\ UNCHANGED <<snakes, foods, walls, startup, keylog>>

\* mutant: a collision reflects the stored velocity
CheckForCollisionsReflect ==
    /\ ran = {"move_snake", "apply_velocity"}
    /\ Cardinality(DOMAIN snakes) = 1
    /\ LET s == snakes[Single(snakes)]
           eaten == Hits(s, foods)
       IN  /\ events' = Cardinality(Hits(s, Colliders))
           /\ \E newPos \in [eaten -> FoodXs \X FoodYs] :
                commands' = FoodCommands(eaten, newPos, Live)
           /\ snakes' = IF Hits(s, Colliders) = {} THEN snakes
                        ELSE [snakes EXCEPT ![Single(snakes)].velocity = <<-@[1], -@[2]>>]
    /\ ran' = RanAfter("check_for_collisions", commands')
    /\ idleTicks' = IF idleTicks \in 0..(MaxIdleTicks - 1) THEN idleTicks + 1
                    ELSE idleTicks
    /\ UNCHANGED <<foods, walls, startup, keylog>>

CheckForCollisions ==
    /\ ran = {"move_snake", "apply_velocity"}
    /\ Cardinality(DOMAIN snakes) = 1
    /\ LET s == snakes[Single(snakes)]
           eaten == Hits(s, foods)
       IN  /\ events' = Cardinality(Hits(s, Colliders))
           /\ \E newPos \in [eaten -> FoodXs \X FoodYs] :
                commands' = FoodCommands(eaten, newPos, Live)
    /\ ran' = RanAfter("check_for_collisions", commands')
    /\ idleTicks' = IF idleTicks \in 0..(MaxIdleTicks - 1) THEN idleTicks + 1
                    ELSE idleTicks
    /\ UNCHANGED <<snakes, foods, walls, startup, keylog>>

\* the stage applies the buffered commands in order once the set has run
Despawn(table, id) == [e \in DOMAIN table \ {id} |-> table[e]]

ApplyBuffers ==
    /\ "check_for_collisions" \in ran
    /\ commands # <<>>
    /\ LET cmd == Head(commands) IN
         IF cmd.op = "despawn"
         THEN /\ snakes' = Despawn(snakes, cmd.id)
              /\ foods' = Despawn(foods, cmd.id)
              /\ walls' = Despawn(walls, cmd.id)
         ELSE /\ foods' = foods @@ (cmd.id :> cmd.bundle)
              /\ UNCHANGED <<snakes, walls>>
    /\ commands' = Tail(commands)
    /\ ran' = RanAfter("check_for_collisions", commands')
    /\ UNCHANGED <<events, idleTicks, startup, keylog>>

Next ==
    \/ \E pressed \in KeySets : MoveSnake(pressed)
    \/ ApplyVelocity
    \/ CheckForCollisions
    \/ ApplyBuffers

Spec == Init /\ [][Next]_vars

TypeOK ==
    /\ ran \subseteq Systems
    /\ events \in 0..MaxEntities
    /\ idleTicks \in -1..MaxIdleTicks

\* ------------------------------------------------------------------------
\* The keys read by move_snake and the sign of the stored velocity: the game
\* from startup with the log on, for MaxHeld ticks. No food is within reach
\* of the player in that time, so no command is queued.
\* ------------------------------------------------------------------------
MaxHeld == 2

InitKeys ==
    /\ Setup
    /\ startup = [arena |-> DefaultArena, phase |-> "running"]
    /\ keylog = [on |-> TRUE, entries |-> <<>>]

KeysMoveSnake ==
    /\ Len(keylog.entries) < MaxHeld
    /\ \E pressed \in KeySets : MoveSnake(pressed)

NextKeys ==
    \/ KeysMoveSnake
    \/ ApplyVelocity
    \/ CheckForCollisions

SpecKeys == InitKeys /\ [][NextKeys]_vars

\* ------------------------------------------------------------------------
\* Startup, for a program built with any arena constants: setup queues the
\* player, the food and the four walls; WallLocation::size asserts that the
\* arena has a positive height and width, and a failed assertion ends the
\* program before the commands are applied and before any tick.
\* ------------------------------------------------------------------------
ArenaXs == {LEFT_WALL, 0, RIGHT_WALL}
ArenaYs == {BOTTOM_WALL, 0, TOP_WALL}
Arenas == {Arena(l, r, b, t) : l \in ArenaXs, r \in ArenaXs, b \in ArenaYs, t \in ArenaYs}

\* mutant: the left and right walls are centred half a thickness outside
WallPositionInOutside(loc, a) ==
    CASE loc = "Left"   -> <<a.left - WALL_THICKNESS \div 2, 0>>
      [] loc = "Right"  -> <<a.right + WALL_THICKNESS \div 2, 0>>
      [] loc = "Bottom" -> <<0, a.bottom>>
      [] loc = "Top"    -> <<0, a.top>>

WallPositionIn(loc, a) ==
    CASE loc = "Left"   -> <<a.left, 0>>
      [] loc = "Right"  -> <<a.right, 0>>
      [] loc = "Bottom" -> <<0, a.bottom>>
      [] loc = "Top"    -> <<0, a.top>>

\* mutant: the assertions accept an empty arena
SizeAssertsNonStrict(a) ==
    /\ a.top - a.bottom >= 0
    /\ a.right - a.left >= 0

\* assert!(arena_height > 0.0); assert!(arena_width > 0.0);
SizeAsserts(a) ==
    /\ a.top - a.bottom > 0
    /\ a.right - a.left > 0

\* mutant: the walls are as long as the arena, not a thickness longer
WallSizeInArenaLong(loc, a) ==
    IF loc \in {"Left", "Right"}
    THEN <<WALL_THICKNESS, a.top - a.bottom>>
    ELSE <<a.right - a.left, WALL_THICKNESS>>

WallSizeIn(loc, a) ==
    IF loc \in {"Left", "Right"}
    THEN <<WALL_THICKNESS, (a.top - a.bottom) + WALL_THICKNESS>>
    ELSE <<(a.right - a.left) + WALL_THICKNESS, WALL_THICKNESS>>

WallBundleIn(loc, a) ==
    [translation |-> WallPositionIn(loc, a), scale |-> WallSizeIn(loc, a)]

\* the order in which setup builds the walls
WallOrder == <<"Left", "Right", "Bottom", "Top">>

SpawnCommand(table, id, bundle) ==
    [op |-> "spawn", table |-> table, id |-> id, bundle |-> bundle]

\* the entities a sequence of spawn commands adds to one table
Spawned(cmds, table) ==
    LET S == {i \in DOMAIN cmds : cmds[i].table = table}
    IN [e \in {cmds[i].id : i \in S} |->
          cmds[CHOOSE i \in S : cmds[i].id = e].bundle]

InitWalls ==
    /\ snakes = <<>>
    /\ foods = <<>>
    /\ walls = <<>>
    /\ commands = <<>>
    /\ ran = {}
    /\ events = 0
    /\ idleTicks = 0
    /\ startup \in [arena : Arenas, phase : {"setup"}]
    /\ keylog = [on |-> FALSE, entries |-> <<>>]

SpawnSnakeAndFood ==
    /\ startup.phase = "setup"
    /\ commands = <<>>
    /\ \E food_x \in FoodXs, food_y \in FoodYs :
         commands' = <<SpawnCommand("snakes", SnakeId, SnakeEntity),
                       SpawnCommand("foods", FirstFoodId, FoodEntity(<<food_x, food_y>>))>>
    /\ UNCHANGED <<snakes, foods, walls, ran, events, idleTicks, startup, keylog>>

BuildWall ==
    /\ startup.phase = "setup"
    /\ Len(commands) \in 2..(Len(WallOrder) + 1)
    /\ SizeAsserts(startup.arena)
    /\ LET loc == WallOrder[Len(commands) - 1]
       IN commands' = Append(commands,
              SpawnCommand("walls", WallId(loc), WallBundleIn(loc, startup.arena)))
    /\ UNCHANGED <<snakes, foods, walls, ran, events, idleTicks, startup, keylog>>

SetupPanics ==
    /\ startup.phase = "setup"
    /\ Len(commands) \in 2..(Len(WallOrder) + 1)
    /\ ~SizeAsserts(startup.arena)
    /\ startup' = [startup EXCEPT !.phase = "panicked"]
    /\ UNCHANGED <<snakes, foods, walls, commands, ran, events, idleTicks, keylog>>

FinishSetup ==
    /\ startup.phase = "setup"
    /\ Len(commands) = Len(WallOrder) + 2
    /\ snakes' = Spawned(commands, "snakes")
    /\ foods' = Spawned(commands, "foods")
    /\ walls' = Spawned(commands, "walls")
    /\ commands' = <<>>
    /\ startup' = [startup EXCEPT !.phase = "running"]
    /\ UNCHANGED <<ran, events, idleTicks, keylog>>

\* the first system of the first tick; apply_velocity reads no arena constant
FirstTick ==
    /\ startup.phase = "running"
    /\ ran = {}
    /\ ApplyVelocity

NextWalls ==
    \/ SpawnSnakeAndFood
    \/ BuildWall
    \/ SetupPanics
    \/ FinishSetup
    \/ FirstTick

SpecWalls == InitWalls /\ [][NextWalls]_vars

\* ------------------------------------------------------------------------
\* Properties
\* ------------------------------------------------------------------------
\* the player and its position
Snake == snakes[Single(snakes)]
Pos == Snake.translation

InBounds(t) ==
    /\ left_bound <= t[1] /\ t[1] <= right_bound
    /\ bottom_bound <= t[2] /\ t[2] <= top_bound

\* a tick boundary: the three systems have run and the buffer is applied
TickBoundary == ran = {} /\ commands = <<>>

\* the steps of the three systems
MoveSnakeStep == "move_snake" \notin ran /\ "move_snake" \in ran'
ApplyVelocityStep == "apply_velocity" \notin ran /\ "apply_velocity" \in ran'
CheckForCollisionsStep == ran = {"move_snake", "apply_velocity"}

\* C1: at every tick boundary the player's position is within the clamp
\* bounds of move_snake on both axes.
C1_InBoundsAtTickBoundary == TickBoundary => InBounds(Pos)

\* C2 as stated: after any number of ticks without a key pressed since
\* startup the player is still at its initial position.
C2_NoDrift ==
    (TickBoundary /\ idleTicks >= 0) => Pos = SnakeEntity.translation

\* C2 amended: after N ticks without a key pressed since startup, y and the
\* stored velocity are unchanged, and x has moved by velocity.x * TIME_STEP
\* per tick: x = N * velocity.x * TIME_STEP as long as that is within
\* left_bound, and left_bound - SNAKE_SPEED * TIME_STEP <= x <= left_bound
\* afterwards.
C2_IdleDrift ==
    (TickBoundary /\ idleTicks >= 0) =>
        /\ Pos[2] = SnakeEntity.translation[2]
        /\ Snake.velocity = SnakeEntity.velocity
        /\ IF TIME_STEP_INV * left_bound <= idleTicks * SnakeEntity.velocity[1]
           THEN TIME_STEP_INV * Pos[1] = idleTicks * SnakeEntity.velocity[1]
           ELSE /\ TIME_STEP_INV * (left_bound - Pos[1]) <= SNAKE_SPEED
                /\ Pos[1] <= left_bound

C2_Witness ==
    TickBoundary /\ idleTicks = MaxIdleTicks - 1 /\ Pos[1] < left_bound

\* C3: within a tick apply_velocity runs only after move_snake, and
\* check_for_collisions only after both.
C3_FixedOrder ==
    /\ "apply_velocity" \in ran => "move_snake" \in ran
    /\ "check_for_collisions" \in ran => {"move_snake", "apply_velocity"} \subseteq ran

\* C4: when check_for_collisions runs, the player's rectangle overlaps no
\* wall rectangle.
C4_NoWallOverlap == CheckForCollisionsStep => Hits(Snake, walls) = {}

\* C5: at most one food entity is live in every state, exactly one at every
\* tick boundary, and a state without food is the middle of a respawn: the
\* replacement is the one command left in the buffer.
C5_OneFood ==
    /\ Cardinality(DOMAIN foods) <= 1
    /\ TickBoundary => Cardinality(DOMAIN foods) = 1
    /\ foods = <<>> => Len(commands) = 1 /\ commands[1].op = "spawn"
    /\ Cardinality(DOMAIN foods) = 1 =>
         \/ commands = <<>>
         \/ Len(commands) = 2 /\ commands[1].op = "despawn"
              /\ commands[1].id \in DOMAIN foods /\ commands[2].op = "spawn"

C5_Witness == foods = <<>> /\ "check_for_collisions" \in ran

\* C6: every run of move_snake leaves the player's position within
\* [left_bound, right_bound] x [bottom_bound, top_bound], with
\* left_bound = LEFT_WALL + WALL_THICKNESS + SNAKE_SIZE.x / 2.75 and the
\* other bounds symmetric.
C6_ClampedAfterMoveSnake ==
    [][MoveSnakeStep =>
        LET p == snakes'[Single(snakes')].translation IN
        /\ 11 * (LEFT_WALL + WALL_THICKNESS) + 4 * SNAKE_SIZE[1] <= 11 * p[1]
        /\ 11 * p[1] <= 11 * (RIGHT_WALL - WALL_THICKNESS) - 4 * SNAKE_SIZE[1]
        /\ 11 * (BOTTOM_WALL + WALL_THICKNESS) + 4 * SNAKE_SIZE[2] <= 11 * p[2]
        /\ 11 * p[2] <= 11 * (TOP_WALL - WALL_THICKNESS) - 4 * SNAKE_SIZE[2]]_vars

\* move_snake has run on a position apply_velocity had pushed beyond the
\* right bound, with the top bound reached as well
C6_Witness ==
    /\ ran = {"apply_velocity", "move_snake"}
    /\ Pos = <<right_bound, top_bound>>
    /\ Snake.velocity[1] > 0

\* the positions of the live foods and of the foods about to be spawned
FoodPositions ==
    {foods[e].translation : e \in DOMAIN foods}
    \cup {commands[i].bundle.translation :
            i \in {j \in DOMAIN commands : commands[j].op = "spawn"}}

\* C7: every food position, at startup and at each respawn, has
\* -450 <= x < 450 and -300 <= y < 300.
C7_FoodInRange ==
    \A p \in FoodPositions :
        /\ -450 * Scale <= p[1] /\ p[1] < 450 * Scale
        /\ -300 * Scale <= p[2] /\ p[2] < 300 * Scale

\* a respawned food whose x is at the low end and whose y is at the high end
C7_Witness ==
    \E e \in DOMAIN foods :
        /\ e # FirstFoodId
        /\ foods[e].translation[1] = -450 * Scale
        /\ foods[e].translation[2] > 299 * Scale

\* C8: every food position is strictly inside the arena.
C8_FoodStrictlyInside ==
    \A p \in FoodPositions :
        /\ LEFT_WALL < p[1] /\ p[1] < RIGHT_WALL
        /\ BOTTOM_WALL < p[2] /\ p[2] < TOP_WALL

\* C9: apply_velocity moves the player by exactly velocity * TIME_STEP on
\* both axes, keeps its velocity, and changes no food and no wall.
C9_ApplyVelocityExact ==
    [][ApplyVelocityStep =>
        /\ DOMAIN snakes' = DOMAIN snakes
        /\ \A e \in DOMAIN snakes :
             /\ TIME_STEP_INV * (snakes'[e].translation[1] - snakes[e].translation[1])
                  = snakes[e].velocity[1]
             /\ TIME_STEP_INV * (snakes'[e].translation[2] - snakes[e].translation[2])
                  = snakes[e].velocity[2]
             /\ snakes'[e].velocity = snakes[e].velocity
        /\ foods' = foods
        /\ walls' = walls]_vars

\* apply_velocity has run after move_snake and left the player beyond a bound
C9_Witness ==
    ran = {"move_snake", "apply_velocity"} /\ ~InBounds(Pos)

\* C10: check_for_collisions and the commands it queues change neither the
\* player's position nor its stored velocity.
C10_CollisionsKeepSnake ==
    [][(CheckForCollisionsStep \/ "check_for_collisions" \in ran)
        => snakes' = snakes]_vars

\* check_for_collisions has run with the player overlapping a wall
C10_Witness ==
    TickBoundary /\ events > 0 /\ Hits(Snake, walls) # {}

\* C11: in every reachable state exactly the four walls Left, Right, Bottom
\* and Top exist, each with the position and the size it was created with:
\* no step of a tick despawns, moves or resizes a wall.
C11_FourWalls ==
    /\ DOMAIN walls = {WallId(loc) : loc \in WallLocation}
    /\ Cardinality(DOMAIN walls) = 4
    /\ \A loc \in WallLocation :
         /\ walls[WallId(loc)].translation = WallPosition(loc)
         /\ walls[WallId(loc)].scale = WallSize(loc)

\* the player overlaps a wall and a food in the same tick, and the commands
\* of that tick are about to be applied
C11_Witness ==
    /\ "check_for_collisions" \in ran
    /\ Len(commands) = 2
    /\ Hits(Snake, walls) # {}

\* C12: in every reachable state exactly one Snake entity exists, so the
\* single-entity queries of move_snake and check_for_collisions never fail.
C12_OneSnake ==
    /\ DOMAIN snakes = {SnakeId}
    /\ Cardinality(DOMAIN snakes) = 1

\* a food has been eaten and replaced, and the tick is over
C12_Witness ==
    /\ TickBoundary
    /\ DOMAIN foods # {}
    /\ FirstFoodId \notin DOMAIN foods

\* rectangle overlap, written on the distance of the centres
Overlaps(a, b) ==
    /\ 2 * (a.translation[1] - b.translation[1]) < a.scale[1] + b.scale[1]
    /\ 2 * (b.translation[1] - a.translation[1]) < a.scale[1] + b.scale[1]
    /\ 2 * (a.translation[2] - b.translation[2]) < a.scale[2] + b.scale[2]
    /\ 2 * (b.translation[2] - a.translation[2]) < a.scale[2] + b.scale[2]

\* C13: in each tick check_for_collisions emits exactly one CollisionEvent
\* for every food and every wall whose rectangle overlaps the player's, and
\* none for the others; no other step emits an event.
C13_OneEventPerOverlap ==
    [][IF CheckForCollisionsStep
       THEN events' = Cardinality({e \in DOMAIN foods : Overlaps(Snake, foods[e])})
                    + Cardinality({e \in DOMAIN walls : Overlaps(Snake, walls[e])})
       ELSE events' = events]_vars

\* a tick in which the player overlapped a wall and a food
C13_Witness == TickBoundary /\ events = 2

\* C14: when the player overlaps the live food at the check, the food is
\* despawned and a replacement with a new id is spawned in the same tick
\* (the food count goes 1, 0, 1 while the commands are applied and the old
\* entity is gone when the next tick starts); when it does not overlap, the
\* tick leaves the food entity and its position unchanged.
C14_EatAndRespawn ==
    [][/\ CheckForCollisionsStep =>
            /\ foods' = foods
            /\ \A f \in DOMAIN foods :
                 IF Overlaps(Snake, foods[f])
                 THEN /\ Len(commands') = 2
                      /\ commands'[1] = [op |-> "despawn", id |-> f]
                      /\ commands'[2].op = "spawn"
                      /\ commands'[2].id \notin Live
                 ELSE commands' = <<>> /\ TickBoundary'
       /\ ("check_for_collisions" \in ran /\ Len(commands) = 2) =>
            /\ foods' = <<>>
            /\ Len(commands') = 1
       /\ ("check_for_collisions" \in ran /\ Len(commands) = 1) =>
            /\ DOMAIN foods' = {commands[1].id}
            /\ foods'[commands[1].id] = commands[1].bundle
            /\ TickBoundary'
       /\ "check_for_collisions" \notin ran => foods' = foods]_vars

\* the replacement has just been spawned under an id the old food never had
C14_Witness ==
    /\ TickBoundary
    /\ events = 1
    /\ Hits(Snake, walls) = {}
    /\ FirstFoodId \notin DOMAIN foods

\* C19: at every tick boundary, whatever keys were pressed and whichever
\* order the two movement systems ran in, the player is at most one
\* SNAKE_SPEED * TIME_STEP outside the clamp bounds on either axis.
C19_WithinOneStep ==
    TickBoundary =>
        /\ TIME_STEP_INV * left_bound - SNAKE_SPEED <= TIME_STEP_INV * Pos[1]
        /\ TIME_STEP_INV * Pos[1] <= TIME_STEP_INV * right_bound + SNAKE_SPEED
        /\ TIME_STEP_INV * bottom_bound - SNAKE_SPEED <= TIME_STEP_INV * Pos[2]
        /\ TIME_STEP_INV * Pos[2] <= TIME_STEP_INV * top_bound + SNAKE_SPEED

\* a tick has ended with the player beyond the right clamp bound
C19_Witness == TickBoundary /\ Pos[1] > right_bound

\* the ticks logged so far
Logs == keylog.entries

\* C18 as stated: move_snake negates the stored x-velocity when Left is
\* pressed and negates the stored y-velocity once when Up is pressed and once
\* more when Down is pressed; two consecutive ticks with Left held restore
\* the x-velocity.
C18_UpAndDownNegate ==
    /\ \A i \in DOMAIN Logs :
         LET t == Logs[i]
             afterUp == IF "Up" \in t.pressed THEN NegF(t.before[2]) ELSE t.before[2]
         IN /\ t.after[1] = IF "Left" \in t.pressed THEN NegF(t.before[1]) ELSE t.before[1]
            /\ t.after[2] = IF "Down" \in t.pressed THEN NegF(afterUp) ELSE afterUp
    /\ \A i \in DOMAIN Logs \ {1} :
         ("Left" \in Logs[i - 1].pressed /\ "Left" \in Logs[i].pressed)
             => Logs[i].after[1] = Logs[i - 1].before[1]

\* C18 amended: move_snake negates the stored x-velocity when Left is
\* pressed and the stored y-velocity when Down is pressed; Up and Right store
\* the value they read, sign of zero included. The stored velocity changes
\* nowhere else, so two consecutive ticks with Left held restore the
\* x-velocity and two with Down held restore the y-velocity.
C18_LeftAndDownNegate ==
    /\ \A i \in DOMAIN Logs :
         LET t == Logs[i]
         IN /\ t.after[1] = IF "Left" \in t.pressed THEN NegF(t.before[1]) ELSE t.before[1]
            /\ t.after[2] = IF "Down" \in t.pressed THEN NegF(t.before[2]) ELSE t.before[2]
    /\ \A i \in DOMAIN Logs \ {1} :
         /\ Logs[i].before = Logs[i - 1].after
         /\ ("Left" \in Logs[i - 1].pressed /\ "Left" \in Logs[i].pressed)
               => Logs[i].after[1] = Logs[i - 1].before[1]
         /\ ("Down" \in Logs[i - 1].pressed /\ "Down" \in Logs[i].pressed)
               => Logs[i].after[2] = Logs[i - 1].before[2]
    /\ Logs # <<>> =>
         /\ Logs[1].before = <<F32(SnakeEntity.velocity[1]), F32(SnakeEntity.velocity[2])>>
         /\ Snake.velocity = <<ValueF(Logs[Len(Logs)].after[1]),
                               ValueF(Logs[Len(Logs)].after[2])>>

\* Left was held for two ticks, with Up in the first and Down in the second
C18_Witness ==
    /\ TickBoundary
    /\ Len(Logs) = 2
    /\ {"Left", "Up"} \subseteq Logs[1].pressed
    /\ {"Left", "Down"} \subseteq Logs[2].pressed
    /\ Logs[2].after[2].neg

\* the program has started with its own arena constants
DefaultStarted == startup.phase = "running" /\ startup.arena = DefaultArena

\* the rectangle a collider covers, in doubled coordinates
Extent(c) ==
    [x0 |-> 2 * c.translation[1] - c.scale[1], x1 |-> 2 * c.translation[1] + c.scale[1],
     y0 |-> 2 * c.translation[2] - c.scale[2], y1 |-> 2 * c.translation[2] + c.scale[2]]

\* the border ring lies between the outer and the inner rectangle, half a
\* wall thickness to either side of the arena's edges
Outer ==
    [x0 |-> 2 * startup.arena.left - WALL_THICKNESS, x1 |-> 2 * startup.arena.right + WALL_THICKNESS,
     y0 |-> 2 * startup.arena.bottom - WALL_THICKNESS, y1 |-> 2 * startup.arena.top + WALL_THICKNESS]
Inner ==
    [x0 |-> 2 * startup.arena.left + WALL_THICKNESS, x1 |-> 2 * startup.arena.right - WALL_THICKNESS,
     y0 |-> 2 * startup.arena.bottom + WALL_THICKNESS, y1 |-> 2 * startup.arena.top - WALL_THICKNESS]

\* the plane cut along every edge of the walls and of the ring
Boxes == {Extent(walls[e]) : e \in DOMAIN walls} \cup {Outer, Inner}
EdgeXs == {b.x0 : b \in Boxes} \cup {b.x1 : b \in Boxes}
EdgeYs == {b.y0 : b \in Boxes} \cup {b.y1 : b \in Boxes}
Consecutive(S) == {p \in S \X S : p[1] < p[2] /\ ~\E c \in S : p[1] < c /\ c < p[2]}
Cells == {[x0 |-> px[1], x1 |-> px[2], y0 |-> py[1], y1 |-> py[2]] :
            px \in Consecutive(EdgeXs), py \in Consecutive(EdgeYs)}
Within(cell, box) ==
    /\ box.x0 <= cell.x0 /\ cell.x1 <= box.x1
    /\ box.y0 <= cell.y0 /\ cell.y1 <= box.y1
InRing(cell) == Within(cell, Outer) /\ ~Within(cell, Inner)
CoveredBy(cell) == {e \in DOMAIN walls : Within(cell, Extent(walls[e]))}

\* the square where the ring turns a corner
CornerCell(cell) ==
    /\ <<cell.x0, cell.x1>> \in {<<Outer.x0, Inner.x0>>, <<Inner.x1, Outer.x1>>}
    /\ <<cell.y0, cell.y1>> \in {<<Outer.y0, Inner.y0>>, <<Inner.y1, Outer.y1>>}

\* C15 as stated: the four walls enclose the arena with no gap and no
\* overlap: every point of the border ring is covered by a wall and no two
\* walls share interior area, in particular not at the corners.
C15_NoGapNoOverlap ==
    DefaultStarted =>
        \A cell \in Cells :
            /\ InRing(cell) => CoveredBy(cell) # {}
            /\ Cardinality(CoveredBy(cell)) <= 1

\* C15 amended: the four walls enclose the arena with no gap, and cover
\* nothing but the border ring; each straight part of the ring is covered by
\* one wall, and at each of the four corners the two adjacent walls overlap
\* in a square of WALL_THICKNESS by WALL_THICKNESS.
C15_NoGapCornerOverlap ==
    DefaultStarted =>
        /\ \A cell \in Cells :
             /\ Cardinality(CoveredBy(cell)) =
                    IF CornerCell(cell) THEN 2 ELSE IF InRing(cell) THEN 1 ELSE 0
             /\ CornerCell(cell) =>
                  /\ cell.x1 - cell.x0 = 2 * WALL_THICKNESS
                  /\ cell.y1 - cell.y0 = 2 * WALL_THICKNESS
                  /\ CoveredBy(cell) =
                       {WallId(IF cell.x0 = Outer.x0 THEN "Left" ELSE "Right"),
                        WallId(IF cell.y0 = Outer.y0 THEN "Bottom" ELSE "Top")}
        /\ Cardinality({cell \in Cells : CornerCell(cell)}) = 4

\* the walls are in place and the first tick has begun
C15_Witness ==
    /\ DefaultStarted
    /\ Cardinality(DOMAIN walls) = 4
    /\ ran = {"apply_velocity"}

\* a rectangle given by its ends in world units
Box(xlo, xhi, ylo, yhi) ==
    [x0 |-> 2 * xlo * Scale, x1 |-> 2 * xhi * Scale,
     y0 |-> 2 * ylo * Scale, y1 |-> 2 * yhi * Scale]

\* C16: with the default constants the left wall covers exactly x in
\* [-455, -445], y in [-305, 305], the right wall x in [445, 455], y in
\* [-305, 305], the bottom wall x in [-455, 455], y in [-305, -295] and the
\* top wall x in [-455, 455], y in [295, 305].
C16_DefaultExtents ==
    DefaultStarted =>
        /\ DOMAIN walls = {WallId(loc) : loc \in WallLocation}
        /\ Extent(walls[WallId("Left")]) = Box(-455, -445, -305, 305)
        /\ Extent(walls[WallId("Right")]) = Box(445, 455, -305, 305)
        /\ Extent(walls[WallId("Bottom")]) = Box(-455, 455, -305, -295)
        /\ Extent(walls[WallId("Top")]) = Box(-455, 455, 295, 305)
        /\ \A loc \in WallLocation : walls[WallId(loc)] = WallBundle(loc)

\* setup has just finished with the default constants
C16_Witness ==
    /\ DefaultStarted
    /\ ran = {}
    /\ WallId("Top") \in DOMAIN walls

\* a wall has been queued for spawning
WallQueued(cmds) == \E i \in DOMAIN cmds : cmds[i].table = "walls"

\* C17: whatever the four arena constants, if TOP_WALL - BOTTOM_WALL <= 0 or
\* RIGHT_WALL - LEFT_WALL <= 0 then startup aborts when the first wall is
\* built: no wall is made, startup never completes and no tick runs; if both
\* differences are positive the assertion never fails.
C17_AssertGuardsStartup ==
    [][IF \/ startup.arena.top - startup.arena.bottom <= 0
          \/ startup.arena.right - startup.arena.left <= 0
       THEN /\ startup'.phase # "running"
            /\ ran' = {}
            /\ walls' = <<>>
            /\ ~WallQueued(commands')
            /\ commands # <<>> => startup'.phase = "panicked"
       ELSE startup'.phase # "panicked"]_vars

\* startup has aborted for an arena of width zero and positive height
C17_Witness ==
    /\ startup.phase = "panicked"
    /\ startup.arena.right = startup.arena.left
    /\ startup.arena.top > startup.arena.bottom

====
